---- MODULE Spec2Model ----
(***************************************************************************)
(* A model of the I2C character-LCD driver i2clcd.go.                      *)
(*                                                                         *)
(* The state is the I2CLCD struct plus what the last public operation did  *)
(* on its two collaborators: the I2C bus (bus.Tx) and the clock            *)
(* (time.Sleep).  Every public method is one action; the sequence of Tx    *)
(* and Sleep calls it makes is computed by operators that follow the       *)
(* private methods send / write4Bits / expanderWrite / pulseEnable.        *)
(***************************************************************************)
EXTENDS Integers, Sequences, FiniteSets

VARIABLES
    addr,       \* lcd.addr
    cols,       \* lcd.cols
    rows,       \* lcd.rows
    backlight,  \* lcd.backlight
    display,    \* lcd.display
    cursor,     \* lcd.cursor
    blink,      \* lcd.blink
    op,         \* name of the last public operation ("New" after construction)
    arg,        \* its arguments, as a sequence of integers
    trace,      \* the bus.Tx and time.Sleep calls it made, in order
    failAt,     \* index of the Tx call whose transport failed (0: none did)
    reported    \* what the operation handed back to its caller

vars == <<addr, cols, rows, backlight, display, cursor, blink,
          op, arg, trace, failAt, reported>>

flags == <<backlight, display, cursor, blink>>
geometry == <<addr, cols, rows>>

----------------------------------------------------------------------------
(* Bounds of the model.                                                    *)

MaxRows == 5        \* rows of the geometries of the one-call checks: 0..MaxRows
MaxRowArg == 6      \* row arguments of SetCursor: 0..MaxRowArg, and 255
MaxText == 2        \* code points per printed text
MaxGlyph == 1       \* charmaps 0..MaxGlyph
MaxFailAt == 2      \* the failing Tx call is one of the first MaxFailAt

\* <<addr, cols, rows>> of the sessions that are driven through sequences of
\* calls: a 16x2, a 20x4 and a one-line module
Geometries == {<<39, 16, 2>>, <<63, 20, 4>>, <<39, 16, 1>>}
\* the geometries of the one-call checks: every number of rows
AllGeometries == {<<39, 16, r>> : r \in 0..MaxRows}
\* column and row arguments of SetCursor in sequences of calls
ColArgs == {0, 200}
RowArgs == {1, 3}
\* row arguments of the one-call checks
AllRowArgs == (0..MaxRowArg) \cup {255}
\* code points of the printed texts: Latin-1, and above one byte
CodePoints == {233, 321}
Texts == UNION {[1..n -> CodePoints] : n \in 0..MaxText}
\* code points of the one-call checks: NUL, ASCII, Latin-1, the last one-byte
\* code point, the first beyond it, Latin Extended, the euro sign, an emoji
AllCodePoints == {0, 65, 233, 255, 256, 321, 8364, 128512}
AllTexts == UNION {[1..n -> AllCodePoints] : n \in 0..MaxText}
\* charmap number g: eight rows, all different
Glyph(g) == [i \in 1..8 |-> (17 * g + 3 * i) % 256]
\* CreateChar locations in sequences of calls
Locations == {1, 9}

----------------------------------------------------------------------------
(* uint8 arithmetic.                                                       *)

RECURSIVE BitAnd(_, _)
BitAnd(a, b) ==
    IF a = 0 \/ b = 0 THEN 0
    ELSE (a % 2) * (b % 2) + 2 * BitAnd(a \div 2, b \div 2)

RECURSIVE BitOr(_, _)
BitOr(a, b) ==
    IF a = 0 THEN b
    ELSE IF b = 0 THEN a
    ELSE (IF a % 2 = 1 \/ b % 2 = 1 THEN 1 ELSE 0) + 2 * BitOr(a \div 2, b \div 2)

\* ^byte(x)
BitNot(a) == 255 - a
\* byte << n
Shl(a, n) == (a * (2 ^ n)) % 256
\* byte(x), and uint8 wrap-around of +, -, *
Byte(x) == x % 256

----------------------------------------------------------------------------
(* Constants of the driver.                                                *)

LCD_CLEARDISPLAY == 1
LCD_RETURNHOME == 2
LCD_ENTRYMODESET == 4
LCD_DISPLAYCONTROL == 8
LCD_FUNCTIONSET == 32
LCD_SETCGRAMADDR == 64
LCD_SETDDRAMADDR == 128
LCD_ENTRYRIGHT == 0
LCD_ENTRYLEFT == 2
LCD_ENTRYSHIFTINCREMENT == 1
LCD_ENTRYSHIFTDECREMENT == 0
LCD_DISPLAYON == 4
LCD_DISPLAYOFF == 0
LCD_CURSORON == 2
LCD_CURSOROFF == 0
LCD_BLINKON == 1
LCD_BLINKOFF == 0
LCD_BACKLIGHT == 8
LCD_SCROLLLEFT == 24
LCD_SCROLLRIGHT == 28

----------------------------------------------------------------------------
(* The collaborators: one call each.                                       *)

\* lcd.bus.Tx(uint16(a), w, nil)
Tx(a, w) == [k |-> "tx", addr |-> a, w |-> w]
\* time.Sleep(ms * time.Millisecond)
Sleep(ms) == [k |-> "sleep", ms |-> ms]

----------------------------------------------------------------------------
(* The private methods.  bl is lcd.backlight when the method runs.         *)

\* mutant: the backlight bit is ORed in whatever the flag says
expanderWrite_BacklightStuckOn(data, bl) ==
    <<Tx(addr, <<BitOr(data, LCD_BACKLIGHT)>>)>>

\* mutant: the expander's usual address instead of lcd.addr
expanderWrite_FixedAddr(data, bl) ==
    LET backlightBit == IF bl THEN LCD_BACKLIGHT ELSE 0
    IN  <<Tx(39, <<BitOr(data, backlightBit)>>)>>

expanderWrite(data, bl) ==
    LET backlightBit == IF bl THEN LCD_BACKLIGHT ELSE 0
    IN  <<Tx(addr, <<BitOr(data, backlightBit)>>)>>

\* mutant: the enable line is dropped without holding it high
pulseEnable_NoHold(data, bl) ==
    expanderWrite(BitOr(data, 4), bl) \o
    expanderWrite(BitAnd(data, BitNot(4)), bl) \o <<Sleep(1)>>

pulseEnable(data, bl) ==
    expanderWrite(BitOr(data, 4), bl) \o <<Sleep(1)>> \o
    expanderWrite(BitAnd(data, BitNot(4)), bl) \o <<Sleep(1)>>

\* mutant: the nibble is strobed without the set-up write
write4Bits_NoSetup(value, bl) ==
    pulseEnable(value, bl)

write4Bits(value, bl) ==
    expanderWrite(value, bl) \o pulseEnable(value, bl)

\* mutant: the low nibble is sent first
send_LowNibbleFirst(value, mode, bl) ==
    LET highNibble == BitAnd(value, 240)
        lowNibble == BitAnd(Shl(value, 4), 240)
    IN  write4Bits(BitOr(lowNibble, mode), bl) \o
        write4Bits(BitOr(highNibble, mode), bl)

send(value, mode, bl) ==
    LET highNibble == BitAnd(value, 240)
        lowNibble == BitAnd(Shl(value, 4), 240)
    IN  write4Bits(BitOr(highNibble, mode), bl) \o
        write4Bits(BitOr(lowNibble, mode), bl)

sendCommand(cmd, bl) == send(cmd, 0, bl)

\* mutant: the register-select bit is put on the read/write line
sendData_OnReadWriteLine(data, bl) == send(data, 2, bl)

sendData(data, bl) == send(data, 1, bl)

----------------------------------------------------------------------------
(* What every public method leaves behind.                                 *)

\* number of Tx calls in a trace
NumTx(t) == Cardinality({i \in 1..Len(t) : t[i].k = "tx"})

\* The methods return nothing and drop the error of bus.Tx: any one of the
\* Tx calls may fail, the method goes on, and the caller is handed nothing.
Done(name, a, t) ==
    /\ op' = name
    /\ arg' = a
    /\ trace' = t
    /\ failAt' \in 0..(IF NumTx(t) < MaxFailAt THEN NumTx(t) ELSE MaxFailAt)
    /\ reported' = "nothing"

----------------------------------------------------------------------------
(* Construction: NewI2CLCD(bus, addr, cols, rows).                         *)

NewI2CLCD(G) ==
    /\ \E g \in G : addr = g[1] /\ cols = g[2] /\ rows = g[3]
    /\ backlight = TRUE
    /\ display = TRUE
    /\ cursor = FALSE
    /\ blink = FALSE
    /\ op = "New"
    /\ arg = <<>>
    /\ trace = <<>>
    /\ failAt = 0
    /\ reported = "nothing"

New == NewI2CLCD(Geometries)

NewAny == NewI2CLCD(AllGeometries)

----------------------------------------------------------------------------
(* The public methods.                                                     *)

\* mutant: the 2-line bit is never set
functionSet_OneLine ==
    BitOr(LCD_FUNCTIONSET, 32)

\* the function-set byte of Init
functionSet ==
    IF rows > 1 THEN BitOr(BitOr(LCD_FUNCTIONSET, 32), 8)
    ELSE BitOr(LCD_FUNCTIONSET, 32)

\* mutant: the wait after the second 0x03 is left out
InitTrace_MissingDelay(bl) ==
    <<Sleep(50)>> \o
    sendCommand(3, bl) \o <<Sleep(5)>> \o
    sendCommand(3, bl) \o
    sendCommand(3, bl) \o <<Sleep(1)>> \o
    sendCommand(2, bl) \o
    sendCommand(functionSet, bl) \o
    sendCommand(BitOr(LCD_DISPLAYCONTROL, LCD_DISPLAYON), bl) \o
    sendCommand(BitOr(LCD_ENTRYMODESET, LCD_ENTRYLEFT), bl) \o
    sendCommand(LCD_CLEARDISPLAY, bl) \o <<Sleep(2)>> \o
    expanderWrite(0, TRUE)

\* the Tx and Sleep calls of Init; bl is lcd.backlight when Init starts
InitTrace(bl) ==
    <<Sleep(50)>> \o
    sendCommand(3, bl) \o <<Sleep(5)>> \o
    sendCommand(3, bl) \o <<Sleep(5)>> \o
    sendCommand(3, bl) \o <<Sleep(1)>> \o
    sendCommand(2, bl) \o
    sendCommand(functionSet, bl) \o
    sendCommand(BitOr(LCD_DISPLAYCONTROL, LCD_DISPLAYON), bl) \o
    sendCommand(BitOr(LCD_ENTRYMODESET, LCD_ENTRYLEFT), bl) \o
    sendCommand(LCD_CLEARDISPLAY, bl) \o <<Sleep(2)>> \o
    expanderWrite(0, TRUE)

Init ==
    /\ Done("Init", <<>>, InitTrace(backlight))
    /\ backlight' = TRUE
    /\ UNCHANGED <<geometry, display, cursor, blink>>

\* mutant: Clear returns without waiting for the controller
Clear_NoDelay ==
    /\ Done("Clear", <<>>, sendCommand(LCD_CLEARDISPLAY, backlight))
    /\ UNCHANGED <<geometry, flags>>

Clear ==
    /\ Done("Clear", <<>>,
            sendCommand(LCD_CLEARDISPLAY, backlight) \o <<Sleep(2)>>)
    /\ UNCHANGED <<geometry, flags>>

Home ==
    /\ Done("Home", <<>>,
            sendCommand(LCD_RETURNHOME, backlight) \o <<Sleep(2)>>)
    /\ UNCHANGED <<geometry, flags>>

\* mutant: code points that do not fit one byte are skipped
RECURSIVE PrintLoop_SkipsWide(_, _)
PrintLoop_SkipsWide(text, bl) ==
    IF text = <<>> THEN <<>>
    ELSE (IF Head(text) > 255 THEN <<>> ELSE sendData(Head(text), bl)) \o
         PrintLoop_SkipsWide(Tail(text), bl)

\* the sendData calls of the loop of the method Print over the code points of text
RECURSIVE PrintLoop(_, _)
PrintLoop(text, bl) ==
    IF text = <<>> THEN <<>>
    ELSE sendData(Byte(Head(text)), bl) \o PrintLoop(Tail(text), bl)

PrintText(text) ==
    /\ Done("Print", text, PrintLoop(text, backlight))
    /\ UNCHANGED <<geometry, flags>>

\* mutant: the row is not clamped
SetCursorCmd_NoClamp(col, row) ==
    BitOr(LCD_SETDDRAMADDR, Byte(col + Byte(row * 64)))

\* the command byte of SetCursor
SetCursorCmd(col, row) ==
    LET r == IF row >= rows THEN Byte(rows - 1) ELSE row
        a == Byte(col + Byte(r * 64))
    IN  BitOr(LCD_SETDDRAMADDR, a)

SetCursor(col, row) ==
    /\ Done("SetCursor", <<col, row>>,
            sendCommand(SetCursorCmd(col, row), backlight))
    /\ UNCHANGED <<geometry, flags>>

DisplayOn ==
    /\ display' = TRUE
    /\ Done("DisplayOn", <<>>,
            sendCommand(BitOr(LCD_DISPLAYCONTROL, LCD_DISPLAYON), backlight))
    /\ UNCHANGED <<geometry, backlight, cursor, blink>>

\* mutant: the flag is committed only when no write failed
DisplayOff_CommitOnSuccess ==
    /\ Done("DisplayOff", <<>>,
            sendCommand(BitOr(LCD_DISPLAYCONTROL, LCD_DISPLAYOFF), backlight))
    /\ display' = (IF failAt' = 0 THEN FALSE ELSE display)
    /\ UNCHANGED <<geometry, backlight, cursor, blink>>

DisplayOff ==
    /\ display' = FALSE
    /\ Done("DisplayOff", <<>>,
            sendCommand(BitOr(LCD_DISPLAYCONTROL, LCD_DISPLAYOFF), backlight))
    /\ UNCHANGED <<geometry, backlight, cursor, blink>>

CursorOn ==
    /\ cursor' = TRUE
    /\ Done("CursorOn", <<>>,
            sendCommand(BitOr(BitOr(LCD_DISPLAYCONTROL, LCD_DISPLAYON),
                              LCD_CURSORON), backlight))
    /\ UNCHANGED <<geometry, backlight, display, blink>>

CursorOff ==
    /\ cursor' = FALSE
    /\ Done("CursorOff", <<>>,
            sendCommand(BitOr(BitOr(LCD_DISPLAYCONTROL, LCD_DISPLAYON),
                              LCD_CURSOROFF), backlight))
    /\ UNCHANGED <<geometry, backlight, display, blink>>

BlinkOn ==
    /\ blink' = TRUE
    /\ Done("BlinkOn", <<>>,
            sendCommand(BitOr(BitOr(LCD_DISPLAYCONTROL, LCD_DISPLAYON),
                              LCD_BLINKON), backlight))
    /\ UNCHANGED <<geometry, backlight, display, cursor>>

\* mutant: the command is built from the persisted display and cursor flags
BlinkOff_SendsFlags ==
    /\ blink' = FALSE
    /\ Done("BlinkOff", <<>>,
            sendCommand(BitOr(BitOr(LCD_DISPLAYCONTROL,
                                    IF display THEN LCD_DISPLAYON ELSE 0),
                              IF cursor THEN LCD_CURSORON ELSE 0), backlight))
    /\ UNCHANGED <<geometry, backlight, display, cursor>>

BlinkOff ==
    /\ blink' = FALSE
    /\ Done("BlinkOff", <<>>,
            sendCommand(BitOr(BitOr(LCD_DISPLAYCONTROL, LCD_DISPLAYON),
                              LCD_BLINKOFF), backlight))
    /\ UNCHANGED <<geometry, backlight, display, cursor>>

Backlight ==
    /\ backlight' = TRUE
    /\ Done("Backlight", <<>>, expanderWrite(0, TRUE))
    /\ UNCHANGED <<geometry, display, cursor, blink>>

NoBacklight ==
    /\ backlight' = FALSE
    /\ Done("NoBacklight", <<>>, expanderWrite(0, FALSE))
    /\ UNCHANGED <<geometry, display, cursor, blink>>

\* the sendData calls of the loop of CreateChar, from charmap[i-1] on
RECURSIVE CreateCharLoop(_, _, _)
CreateCharLoop(charmap, i, bl) ==
    IF i > 8 THEN <<>>
    ELSE sendData(charmap[i], bl) \o CreateCharLoop(charmap, i + 1, bl)

\* mutant: the location is not masked to three bits
CreateCharTrace_NoMask(location, charmap, bl) ==
    sendCommand(BitOr(LCD_SETCGRAMADDR, Shl(location, 3)), bl) \o
    CreateCharLoop(charmap, 1, bl)

\* the Tx and Sleep calls of CreateChar
CreateCharTrace(location, charmap, bl) ==
    LET loc == BitAnd(location, 7)
    IN  sendCommand(BitOr(LCD_SETCGRAMADDR, Shl(loc, 3)), bl) \o
        CreateCharLoop(charmap, 1, bl)

CreateChar(location, charmap) ==
    /\ Done("CreateChar", <<location>> \o charmap,
            CreateCharTrace(location, charmap, backlight))
    /\ UNCHANGED <<geometry, flags>>

ScrollDisplayLeft ==
    /\ Done("ScrollDisplayLeft", <<>>, sendCommand(LCD_SCROLLLEFT, backlight))
    /\ UNCHANGED <<geometry, flags>>

ScrollDisplayRight ==
    /\ Done("ScrollDisplayRight", <<>>, sendCommand(LCD_SCROLLRIGHT, backlight))
    /\ UNCHANGED <<geometry, flags>>

LeftToRight ==
    /\ Done("LeftToRight", <<>>,
            sendCommand(BitOr(LCD_ENTRYMODESET, LCD_ENTRYLEFT), backlight))
    /\ UNCHANGED <<geometry, flags>>

RightToLeft ==
    /\ Done("RightToLeft", <<>>,
            sendCommand(BitOr(LCD_ENTRYMODESET, LCD_ENTRYRIGHT), backlight))
    /\ UNCHANGED <<geometry, flags>>

ShiftIncrement ==
    /\ Done("ShiftIncrement", <<>>,
            sendCommand(BitOr(LCD_ENTRYMODESET, LCD_ENTRYSHIFTINCREMENT),
                        backlight))
    /\ UNCHANGED <<geometry, flags>>

ShiftDecrement ==
    /\ Done("ShiftDecrement", <<>>,
            sendCommand(BitOr(LCD_ENTRYMODESET, LCD_ENTRYSHIFTDECREMENT),
                        backlight))
    /\ UNCHANGED <<geometry, flags>>

Autoscroll ==
    /\ Done("Autoscroll", <<>>,
            sendCommand(BitOr(LCD_ENTRYMODESET, LCD_ENTRYSHIFTINCREMENT),
                        backlight))
    /\ UNCHANGED <<geometry, flags>>

NoAutoscroll ==
    /\ Done("NoAutoscroll", <<>>,
            sendCommand(BitOr(LCD_ENTRYMODESET, LCD_ENTRYSHIFTDECREMENT),
                        backlight))
    /\ UNCHANGED <<geometry, flags>>

----------------------------------------------------------------------------
(* The session: any public method, any time, with any arguments.           *)

Next ==
    \/ Init
    \/ Clear
    \/ Home
    \/ \E text \in Texts : PrintText(text)
    \/ \E col \in ColArgs, row \in RowArgs : SetCursor(col, row)
    \/ DisplayOn
    \/ DisplayOff
    \/ CursorOn
    \/ CursorOff
    \/ BlinkOn
    \/ BlinkOff
    \/ Backlight
    \/ NoBacklight
    \/ \E location \in Locations, g \in 0..MaxGlyph :
          CreateChar(location, Glyph(g))
    \/ ScrollDisplayLeft
    \/ ScrollDisplayRight
    \/ LeftToRight
    \/ RightToLeft
    \/ ShiftIncrement
    \/ ShiftDecrement
    \/ Autoscroll
    \/ NoAutoscroll

Spec == New /\ [][Next]_vars

----------------------------------------------------------------------------
(* One call of one method on a fresh session, over all of its arguments.   *)

\* a call of the private method send
Send(value, mode) ==
    /\ Done("send", <<value, mode>>, send(value, mode, backlight))
    /\ UNCHANGED <<geometry, flags>>

NextSend ==
    \/ op = "New" /\ NoBacklight
    \/ op # "send" /\ \E value \in 0..255, mode \in {0, 1} : Send(value, mode)

SpecSend == New /\ [][NextSend]_vars

NextSetCursor ==
    op = "New" /\ \E col \in 0..255, row \in AllRowArgs : SetCursor(col, row)

SpecSetCursor == NewAny /\ [][NextSetCursor]_vars

NextCreateChar ==
    \/ op = "New" /\ NoBacklight
    \/ op # "CreateChar" /\ \E location \in 0..255, g \in 0..MaxGlyph :
          CreateChar(location, Glyph(g))

SpecCreateChar == New /\ [][NextCreateChar]_vars

----------------------------------------------------------------------------
(* Reading a trace back, as the expander and the controller see it.        *)

\* the bytes written to the bus, in order
TxBytes(t) ==
    LET tx == SelectSeq(t, LAMBDA e : e.k = "tx")
    IN  [i \in 1..Len(tx) |-> tx[i].w[1]]

\* whether the bit of weight m (a power of two) is set in byte b
Bit(b, m) == (b \div m) % 2 = 1

\* byte b without its enable (0x04) and backlight (0x08) bits
Payload(b) == b - (IF Bit(b, 4) THEN 4 ELSE 0) - (IF Bit(b, 8) THEN 8 ELSE 0)

\* the payloads the controller latches: one per write with the enable bit set
Latched(t) ==
    LET b == TxBytes(t)
        hi == SelectSeq(b, LAMBDA x : Bit(x, 4))
    IN  [i \in 1..Len(hi) |-> Payload(hi[i])]

\* the bytes the controller assembles from pairs of latched nibbles, each with
\* the register-select bit of its high nibble
Sent(t) ==
    LET n == Latched(t)
    IN  [i \in 1..(Len(n) \div 2) |->
            [mode |-> n[2 * i - 1] % 2,
             value |-> (n[2 * i - 1] \div 16) * 16 + (n[2 * i] \div 16)]]

\* the enable bit of every byte written, in order
EnableBits(t) ==
    LET b == TxBytes(t)
    IN  [i \in 1..Len(b) |-> Bit(b[i], 4)]

\* whether every write of t belongs to a nibble transfer of write4Bits
OnlyNibbleTransfers(t) ==
    Len(TxBytes(t)) = 3 * Len(Latched(t))

\* a command byte, as the controller assembles it
Cmd(v) == [mode |-> 0, value |-> v]

\* the position in t of its j-th Tx call; 0 for j = 0, Len(t) + 1 past the last
TxPos(t, j) ==
    LET idx == SelectSeq([i \in 1..Len(t) |-> i], LAMBDA i : t[i].k = "tx")
    IN  IF j = 0 THEN 0 ELSE IF j > Len(idx) THEN Len(t) + 1 ELSE idx[j]

\* the milliseconds slept in t at the positions lo..hi
RECURSIVE SleptIn(_, _, _)
SleptIn(t, lo, hi) ==
    IF lo > hi THEN 0
    ELSE (IF t[lo].k = "sleep" THEN t[lo].ms ELSE 0) + SleptIn(t, lo + 1, hi)

\* the milliseconds slept between the j-th Tx call of t and the next one, on
\* top of the 1 ms settle that follows an enable edge (a write with the enable
\* bit set, or the write right after it)
ExtraDelay(t, j) ==
    LET b == TxBytes(t)
        edge == /\ j >= 1
                /\ \/ Bit(b[j], 4)
                   \/ j >= 2 /\ Bit(b[j - 1], 4)
    IN  SleptIn(t, TxPos(t, j) + 1, TxPos(t, j + 1) - 1) - (IF edge THEN 1 ELSE 0)

\* the methods that write the display-control register
DisplayToggles ==
    {"DisplayOn", "DisplayOff", "CursorOn", "CursorOff", "BlinkOn", "BlinkOff"}

----------------------------------------------------------------------------
(* C1: every byte written to the bus carries bit 0x08 exactly when          *)
(* lcd.backlight is true at the moment of the write, whatever operation     *)
(* writes it.  The flag changes inside an operation only in Init (before    *)
(* its last write) and in Backlight / NoBacklight (before their only        *)
(* write), so the flag at the moment of a write is the flag before the      *)
(* operation for all writes of Init but the last, and the flag after the    *)
(* operation for every other write.                                         *)
C1_BacklightBitOnEveryWrite ==
    [][\A i \in 1..Len(trace') :
          trace'[i].k = "tx" =>
              (Bit(trace'[i].w[1], 8) <=>
                  IF op' = "Init" /\ i < Len(trace') THEN backlight
                  ELSE backlight')]_vars

\* a command unrelated to the backlight, written while the backlight is off
C1_Witness ==
    /\ op = "SetCursor"
    /\ ~backlight
    /\ Len(TxBytes(trace)) = 6

(* C2: Init negotiates 4-bit mode by single nibble transfers 0x3, 0x3,      *)
(* 0x3, 0x2: these are the first four nibbles the controller latches.       *)
C2_InitSingleNibbles ==
    op = "Init" =>
        LET n == Latched(trace)
        IN  /\ Len(n) >= 4
            /\ [i \in 1..4 |-> n[i] \div 16] = <<3, 3, 3, 2>>

(* C3: every display-control command carries the three persisted flags:    *)
(* 0x04 iff display, 0x02 iff cursor, 0x01 iff blink.                       *)
C3_DisplayControlCarriesFlags ==
    op \in DisplayToggles =>
        Sent(trace) =
            <<[mode |-> 0,
               value |-> LCD_DISPLAYCONTROL
                         + (IF display THEN LCD_DISPLAYON ELSE 0)
                         + (IF cursor THEN LCD_CURSORON ELSE 0)
                         + (IF blink THEN LCD_BLINKON ELSE 0)]>>

(* C4: an operation in which a bus write failed reports a                   *)
(* TransportFailure to its caller.                                          *)
C4_FailureIsReported ==
    failAt > 0 => reported = "TransportFailure"

(* C5: send(v, mode) transfers the high nibble before the low nibble;      *)
(* without the enable and backlight bits, the bytes of the first transfer   *)
(* are (v & 0xF0) | mode and those of the second are                        *)
(* ((v << 4) & 0xF0) | mode.                                                *)
C5_SendNibblePayloads ==
    op = "send" =>
        LET b == TxBytes(trace)
            h == Len(b) \div 2
            hi == (arg[1] \div 16) * 16 + arg[2]
            lo == (arg[1] % 16) * 16 + arg[2]
        IN  /\ h >= 1
            /\ Len(b) = 2 * h
            /\ \A i \in 1..Len(b) : Payload(b[i]) = IF i <= h THEN hi ELSE lo
            /\ Latched(trace) = <<hi, lo>>

\* data byte 0xA5: payloads 0xA1 then 0x51
C5_Witness ==
    /\ op = "send"
    /\ arg = <<165, 1>>
    /\ Latched(trace) = <<161, 81>>

(* C6, as claimed: one send issues exactly 4 bus writes, enable-high,       *)
(* enable-low, enable-high, enable-low.                                     *)
C6_SendFourWrites ==
    op = "send" => EnableBits(trace) = <<TRUE, FALSE, TRUE, FALSE>>

(* C6, amended: one send issues exactly 6 bus writes, three per nibble      *)
(* transfer: the set-up write of write4Bits with the enable bit clear, then *)
(* enable-high, then enable-low.                                            *)
C6_SendSixWrites ==
    op = "send" =>
        EnableBits(trace) = <<FALSE, TRUE, FALSE, FALSE, TRUE, FALSE>>

C6_Witness ==
    /\ op = "send"
    /\ arg = <<255, 1>>
    /\ NumTx(trace) = 6

(* C7: after the 4-bit switch Init sends, as full command-mode bytes and in *)
(* this order, function-set (0x28 when rows > 1, else 0x20), 0x0C, 0x06,    *)
(* 0x01; it then sets the backlight flag, and its last bus write, which     *)
(* follows these sends, has bit 0x08 set.                                   *)
C7_InitCommandsThenBacklight ==
    op = "Init" =>
        LET s == Sent(trace)
            b == TxBytes(trace)
        IN  /\ Len(s) = 8
            /\ s[4] = Cmd(2)
            /\ SubSeq(s, 5, 8) =
                   <<Cmd(IF rows > 1 THEN 40 ELSE 32), Cmd(12), Cmd(6), Cmd(1)>>
            /\ backlight
            /\ Len(b) = 3 * Len(Latched(trace)) + 1
            /\ trace[Len(trace)].k = "tx"
            /\ Bit(b[Len(b)], 8)
            /\ ~Bit(b[Len(b)], 4)

\* Init of a 2-line module that started with the backlight off
C7_Witness ==
    /\ op = "Init"
    /\ rows > 1
    /\ ~Bit(TxBytes(trace)[1], 8)
    /\ Bit(TxBytes(trace)[NumTx(trace)], 8)

(* C8: with rows >= 1, SetCursor(col, row) sends exactly one command byte:  *)
(* 0x80 ORed with the 8-bit sum col + r * 0x40, where r is rows - 1 when    *)
(* row >= rows and row otherwise; col is not clamped.                       *)
C8_SetCursorAddress ==
    (op = "SetCursor" /\ rows >= 1) =>
        LET col == arg[1]
            r == IF arg[2] >= rows THEN rows - 1 ELSE arg[2]
            a == (col + r * 64) % 256
        IN  /\ Sent(trace) = <<Cmd(IF a >= 128 THEN a ELSE a + 128)>>
            /\ OnlyNibbleTransfers(trace)

\* a 4-row module, row 6 clamped to 3 (3 * 0x40 = 0xC0), column 19
C8_Witness ==
    /\ op = "SetCursor"
    /\ rows = 4
    /\ arg = <<19, 6>>
    /\ Sent(trace) = <<Cmd(211)>>

(* C9: CreateChar(s, glyph) sends the command 0x40 | ((s & 7) << 3), then   *)
(* the 8 bytes of glyph in order in data mode, and nothing else; its trace  *)
(* is the trace of CreateChar(s & 7, glyph).                                *)
C9_CreateCharMasksSlot ==
    op = "CreateChar" =>
        LET s == arg[1]
            glyph == Tail(arg)
        IN  /\ Sent(trace) =
                   <<Cmd(64 + (s % 8) * 8)>> \o
                   [i \in 1..8 |-> [mode |-> 1, value |-> glyph[i]]]
            /\ OnlyNibbleTransfers(trace)
            /\ \A i \in 1..Len(trace) : trace[i].k = "sleep" => trace[i].ms = 1
            /\ trace = CreateCharTrace(s % 8, glyph, backlight)

\* slot 9 addresses the CGRAM of slot 1
C9_Witness ==
    /\ op = "CreateChar"
    /\ arg[1] = 9
    /\ Sent(trace)[1] = Cmd(72)
    /\ Len(Sent(trace)) = 9

(* C10: on top of the 1 ms settle after each enable edge, Init waits 50 ms  *)
(* before its first write, 5 ms after the first 0x3 nibble, 5 ms after the  *)
(* second, 1 ms after the third, 2 ms after clear-display, and nowhere      *)
(* else: not after the 0x2 nibble, the function-set, the display-control    *)
(* or the entry-mode command.                                               *)
C10_InitDelays ==
    op = "Init" =>
        LET b == TxBytes(trace)
        IN  /\ Len(b) = 49
            /\ <<b[6] \div 16, b[12] \div 16, b[18] \div 16, b[24] \div 16>>
                   = <<3, 3, 3, 2>>
            /\ SubSeq(Sent(trace), 5, 8) =
                   <<Cmd(functionSet), Cmd(12), Cmd(6), Cmd(1)>>
            /\ \A j \in 0..Len(b) :
                   ExtraDelay(trace, j) =
                       CASE j = 0 -> 50
                         [] j = 6 -> 5
                         [] j = 12 -> 5
                         [] j = 18 -> 1
                         [] j = 48 -> 2
                         [] OTHER -> 0

C10_Witness ==
    /\ op = "Init"
    /\ ExtraDelay(trace, 0) = 50
    /\ ExtraDelay(trace, 6) = 5
    /\ ExtraDelay(trace, 48) = 2

----------------------------------------------------------------------------
\* the methods that write the entry-mode register
EntryModeOps ==
    {"LeftToRight", "RightToLeft", "ShiftIncrement", "ShiftDecrement",
     "Autoscroll", "NoAutoscroll"}

\* the last entry-mode command (0x04..0x07) that t sends; -1 when it sends none
EntryModeCmd(t) ==
    LET s == Sent(t)
        at == {i \in 1..Len(s) : s[i].mode = 0 /\ s[i].value \div 4 = 1}
    IN  IF at = {} THEN -1
        ELSE s[CHOOSE i \in at : \A k \in at : k <= i].value

(* C11: an entry-mode command sent by LeftToRight, RightToLeft,             *)
(* ShiftIncrement, ShiftDecrement, Autoscroll or NoAutoscroll carries both  *)
(* bits of the register: the bit the operation changes has its new value    *)
(* and the other bit has the value of the last entry-mode command sent.     *)
(* Stated for the case where that last command was sent by the operation    *)
(* just before (Init or another of these six).                              *)
C11_EntryModeKeepsOtherBit ==
    [][(op' \in EntryModeOps /\ EntryModeCmd(trace) # -1) =>
          LET prev == EntryModeCmd(trace)
              new == EntryModeCmd(trace')
          IN  /\ new # -1
              /\ IF op' \in {"LeftToRight", "RightToLeft"}
                 THEN /\ Bit(new, 2) <=> op' = "LeftToRight"
                      /\ Bit(new, 1) <=> Bit(prev, 1)
                 ELSE /\ Bit(new, 1) <=> op' \in {"ShiftIncrement", "Autoscroll"}
                      /\ Bit(new, 2) <=> Bit(prev, 2)]_vars

(* C12: a transport failure aborts the operation in progress: the failed    *)
(* write is the last bus write the operation issues.                        *)
C12_FailureAbortsOperation ==
    failAt > 0 => NumTx(trace) = failAt

----------------------------------------------------------------------------
NextPrint ==
    \/ op = "New" /\ NoBacklight
    \/ op # "Print" /\ \E text \in AllTexts : PrintText(text)

SpecPrint == New /\ [][NextPrint]_vars

\* a data byte, as the controller assembles it
Data(v) == [mode |-> 1, value |-> v]

(* C13: Print(text) sends exactly one data-mode byte per code point of      *)
(* text, in text order, the byte of code point c being c mod 256; an empty  *)
(* text issues no bus write.                                                *)
C13_PrintLowBytePerCodePoint ==
    op = "Print" =>
        /\ Sent(trace) = [i \in 1..Len(arg) |-> Data(arg[i] % 256)]
        /\ OnlyNibbleTransfers(trace)
        /\ arg = <<>> => NumTx(trace) = 0

\* U+0141 then U+00E9: the bytes 0x41 and 0xE9
C13_Witness ==
    /\ op = "Print"
    /\ arg = <<321, 233>>
    /\ Sent(trace) = <<Data(65), Data(233)>>

(* C14: Clear and Home each send their one command byte (0x01, 0x02) and   *)
(* then wait 2 ms more; every other operation but Init adds no delay to     *)
(* the 1 ms settle after each enable edge.                                  *)
C14_ExtraDelayOnlyAfterClearHome ==
    LET n == NumTx(trace)
    IN  /\ op = "Clear" => Sent(trace) = <<Cmd(1)>>
        /\ op = "Home" => Sent(trace) = <<Cmd(2)>>
        /\ op \in {"Clear", "Home"} =>
               /\ OnlyNibbleTransfers(trace)
               /\ \A j \in 0..n :
                      ExtraDelay(trace, j) = IF j = n THEN 2 ELSE 0
        /\ op \notin {"New", "Init", "Clear", "Home"} =>
               \A j \in 0..n : ExtraDelay(trace, j) = 0

C14_Witness ==
    /\ op = "Home"
    /\ NumTx(trace) = 6
    /\ ExtraDelay(trace, 6) = 2
    /\ trace[Len(trace)] = Sleep(2)

\* the number of byte sends an operation asks for
SendsRequested(o, a) ==
    CASE o \in {"New", "Backlight", "NoBacklight"} -> 0
      [] o = "Init" -> 8
      [] o = "Print" -> Len(a)
      [] o = "CreateChar" -> 9
      [] OTHER -> 1

\* the number of enable high-to-low transitions in the bytes b
FallingEdges(b) ==
    Cardinality({i \in 1..(Len(b) - 1) : Bit(b[i], 4) /\ ~Bit(b[i + 1], 4)})

(* C15: every write with the enable bit 0x04 set is followed, as the very   *)
(* next bus write of the same operation, by a write that differs from it    *)
(* in the enable bit only, with a non-zero delay between the two and after  *)
(* the second; the enable line falls once per nibble transfer requested,    *)
(* two per byte send, never in Backlight or NoBacklight.                    *)
C15_EnablePulsePerNibble ==
    LET b == TxBytes(trace)
        n == Len(b)
    IN  /\ \A i \in 1..n :
               Bit(b[i], 4) =>
                   /\ i < n
                   /\ b[i + 1] = b[i] - 4
                   /\ SleptIn(trace, TxPos(trace, i) + 1,
                              TxPos(trace, i + 1) - 1) > 0
                   /\ SleptIn(trace, TxPos(trace, i + 1) + 1,
                              TxPos(trace, i + 2) - 1) > 0
        /\ FallingEdges(b) = 2 * SendsRequested(op, arg)

\* two data bytes: four pulses
C15_Witness ==
    /\ op = "Print"
    /\ Len(arg) = 2
    /\ FallingEdges(TxBytes(trace)) = 4

(* C16: a flag-changing operation sets its flag before its first bus       *)
(* write and never takes it back: when the operation has ended the flag     *)
(* holds the new value, also when a write of the operation failed, and the  *)
(* write of Backlight / NoBacklight already carries the new backlight bit.  *)
C16_FlagSetEvenWhenWriteFails ==
    /\ op = "DisplayOn" => display
    /\ op = "DisplayOff" => ~display
    /\ op = "CursorOn" => cursor
    /\ op = "CursorOff" => ~cursor
    /\ op = "BlinkOn" => blink
    /\ op = "BlinkOff" => ~blink
    /\ op = "Backlight" => backlight /\ Bit(TxBytes(trace)[1], 8)
    /\ op = "NoBacklight" => ~backlight /\ ~Bit(TxBytes(trace)[1], 8)

\* DisplayOff whose first write failed: the flag is off all the same
C16_Witness ==
    /\ op = "DisplayOff"
    /\ failAt = 1
    /\ ~display

(* C17: every bus transaction of an operation is a write of exactly one    *)
(* byte to the session's address; no operation changes addr, cols or rows;  *)
(* display, cursor and blink change only in their own on/off operations,    *)
(* and backlight only in Backlight, NoBacklight and Init.                   *)
C17_OneByteWritesAndFrame ==
    [][/\ \A i \in 1..Len(trace') :
              trace'[i].k = "tx" =>
                  /\ trace'[i].addr = addr
                  /\ Len(trace'[i].w) = 1
       /\ addr' = addr
       /\ cols' = cols
       /\ rows' = rows
       /\ display' # display => op' \in {"DisplayOn", "DisplayOff"}
       /\ cursor' # cursor => op' \in {"CursorOn", "CursorOff"}
       /\ blink' # blink => op' \in {"BlinkOn", "BlinkOff"}
       /\ backlight' # backlight =>
              op' \in {"Backlight", "NoBacklight", "Init"}]_vars

\* Init on the module at 0x3F turns the backlight back on
C17_Witness ==
    /\ op = "Init"
    /\ addr = 63
    /\ ~Bit(TxBytes(trace)[1], 8)
    /\ backlight
    /\ \A i \in 1..Len(trace) : trace[i].k = "tx" => trace[i].addr = 63

----------------------------------------------------------------------------
(* What an operation puts on the bus, as a function of the operation, its  *)
(* arguments, the address, the number of rows and the backlight flag, and   *)
(* of nothing else.                                                         *)

\* the calls that carry byte v in mode m to address a, k being the backlight
\* bit (0 or 8)
Wire(a, v, m, k) ==
    LET hi == (v \div 16) * 16 + m + k
        lo == (v % 16) * 16 + m + k
    IN  <<Tx(a, <<hi>>), Tx(a, <<hi + 4>>), Sleep(1), Tx(a, <<hi>>), Sleep(1),
          Tx(a, <<lo>>), Tx(a, <<lo + 4>>), Sleep(1), Tx(a, <<lo>>), Sleep(1)>>

\* the calls that carry the bytes of s, from the i-th on, in data mode
RECURSIVE WireData(_, _, _, _)
WireData(a, s, i, k) ==
    IF i > Len(s) THEN <<>>
    ELSE Wire(a, s[i] % 256, 1, k) \o WireData(a, s, i + 1, k)

BusOf(o, x, a, r, bl) ==
    LET k == IF bl THEN 8 ELSE 0
        C(v) == Wire(a, v, 0, k)
    IN  CASE o = "Init" ->
                 <<Sleep(50)>> \o C(3) \o <<Sleep(5)>> \o C(3) \o <<Sleep(5)>> \o
                 C(3) \o <<Sleep(1)>> \o C(2) \o C(IF r > 1 THEN 40 ELSE 32) \o
                 C(12) \o C(6) \o C(1) \o <<Sleep(2), Tx(a, <<8>>)>>
          [] o = "Clear" -> C(1) \o <<Sleep(2)>>
          [] o = "Home" -> C(2) \o <<Sleep(2)>>
          [] o = "Print" -> WireData(a, x, 1, k)
          [] o = "SetCursor" ->
                 C(128 + ((x[1] + 64 * (IF x[2] >= r THEN r - 1 ELSE x[2])) % 128))
          [] o = "DisplayOn" -> C(12)
          [] o = "DisplayOff" -> C(8)
          [] o = "CursorOn" -> C(14)
          [] o = "CursorOff" -> C(12)
          [] o = "BlinkOn" -> C(13)
          [] o = "BlinkOff" -> C(12)
          [] o = "Backlight" -> <<Tx(a, <<8>>)>>
          [] o = "NoBacklight" -> <<Tx(a, <<0>>)>>
          [] o = "CreateChar" -> C(64 + (x[1] % 8) * 8) \o WireData(a, x, 2, k)
          [] o = "ScrollDisplayLeft" -> C(24)
          [] o = "ScrollDisplayRight" -> C(28)
          [] o = "LeftToRight" -> C(6)
          [] o \in {"RightToLeft", "ShiftDecrement", "NoAutoscroll"} -> C(4)
          [] o \in {"ShiftIncrement", "Autoscroll"} -> C(5)

(* C18: the display, cursor and blink flags never influence the bus.  In    *)
(* every step of a session the calls made (bytes and delays) and the next   *)
(* backlight flag are determined by the operation, its arguments, the       *)
(* address, the number of rows and the backlight flag before the step; so   *)
(* two sessions that agree on these and are driven by the same operations   *)
(* make the same calls step after step, whatever their display, cursor and  *)
(* blink flags are.                                                         *)
C18_BusIgnoresDisplayFlags ==
    [][/\ trace' = BusOf(op', arg', addr, rows, backlight)
       /\ backlight' = CASE op' \in {"Init", "Backlight"} -> TRUE
                         [] op' = "NoBacklight" -> FALSE
                         [] OTHER -> backlight]_vars

\* BlinkOff with the display off and the cursor on sends what it always sends
C18_Witness ==
    /\ op = "BlinkOff"
    /\ ~display
    /\ cursor
    /\ Sent(trace) = <<Cmd(12)>>

(* C19: on a geometry of up to 4 rows and up to 20 columns, SetCursor maps  *)
(* distinct in-range cells to distinct command bytes: the command sent for  *)
(* cell (col, row) is the command of no other cell with col < cols and      *)
(* row < rows.                                                              *)
C19_SetCursorInjective ==
    (/\ op = "SetCursor"
     /\ rows <= 4
     /\ cols <= 20
     /\ arg[1] < cols
     /\ arg[2] < rows) =>
        \A c2 \in 0..(cols - 1), r2 \in 0..(rows - 1) :
            <<c2, r2>> # arg => SetCursorCmd(c2, r2) # Sent(trace)[1].value

(* C20: no byte written to the bus has bit 0x02, the controller's           *)
(* read/write line, set: a written byte carries only the nibble (0xF0),     *)
(* backlight (0x08), enable (0x04) and register-select (0x01) bits.         *)
C20_NeverReadMode ==
    \A i \in 1..Len(trace) :
        trace[i].k = "tx" =>
            /\ trace[i].w[1] \in 0..255
            /\ ~Bit(trace[i].w[1], 2)

\* a data nibble strobed with the backlight on: 0x08 | 0x04 | 0x01 set
C20_Witness ==
    /\ op = "CreateChar"
    /\ \E i \in 1..Len(trace) : trace[i].k = "tx" /\ trace[i].w[1] % 16 = 13

====
